---- MODULE Spec2Model ----
(***************************************************************************)
(* Chaloride ride-lifecycle orchestrator: the BookingView component, the   *)
(* App state it is handed, and the geminiService retry wrapper.            *)
(*                                                                         *)
(* Nullable values of the source (T | null) are options: None is null and  *)
(* Some(v) is the value v.                                                 *)
(***************************************************************************)
EXTENDS Integers, Sequences, FiniteSets, Bags, TLC

None == <<>>
Some(v) == <<v>>
IsSome(o) == o # <<>>
Val(o) == o[1]

(***************************************************************************)
(* geminiService: withRetry                                                *)
(***************************************************************************)

\* const MAX_RETRIES = 3
MAX_RETRIES == 3

\* A text the code inspects character by character is the sequence of its
\* UTF-16 code units ("3" is 51, " " is 32).
\* An error is the text e.toString() yields.
\* "Error: The model is overloaded. Please try again later."
E_OVERLOADED ==
    <<69, 114, 114, 111, 114, 58, 32, 84, 104, 101, 32, 109, 111, 100, 101,
      108, 32, 105, 115, 32, 111, 118, 101, 114, 108, 111, 97, 100, 101,
      100, 46, 32, 80, 108, 101, 97, 115, 101, 32, 116, 114, 121, 32, 97,
      103, 97, 105, 110, 32, 108, 97, 116, 101, 114, 46>>
\* "Error: 503 UNAVAILABLE"
E_UNAVAILABLE ==
    <<69, 114, 114, 111, 114, 58, 32, 53, 48, 51, 32, 85, 78, 65, 86, 65,
      73, 76, 65, 66, 76, 69>>
\* "Error: overloaded UNAVAILABLE"
E_BOTH ==
    <<69, 114, 114, 111, 114, 58, 32, 111, 118, 101, 114, 108, 111, 97,
      100, 101, 100, 32, 85, 78, 65, 86, 65, 73, 76, 65, 66, 76, 69>>
\* "Error: service unavailable"
E_LOWER ==
    <<69, 114, 114, 111, 114, 58, 32, 115, 101, 114, 118, 105, 99, 101, 32,
      117, 110, 97, 118, 97, 105, 108, 97, 98, 108, 101>>
\* "TypeError: Failed to fetch"
E_NETWORK ==
    <<84, 121, 112, 101, 69, 114, 114, 111, 114, 58, 32, 70, 97, 105, 108,
      101, 100, 32, 116, 111, 32, 102, 101, 116, 99, 104>>
\* "Error: API call failed after multiple retries."
E_FALLBACK ==
    <<69, 114, 114, 111, 114, 58, 32, 65, 80, 73, 32, 99, 97, 108, 108, 32,
      102, 97, 105, 108, 101, 100, 32, 97, 102, 116, 101, 114, 32, 109,
      117, 108, 116, 105, 112, 108, 101, 32, 114, 101, 116, 114, 105, 101,
      115, 46>>

TransientErrors == {E_OVERLOADED, E_UNAVAILABLE, E_BOTH}
FatalErrors == {E_LOWER, E_NETWORK}
Errors == TransientErrors \cup FatalErrors

\* text.includes(searchString): searchString occurs in text as a substring
\* (case-sensitive).
Includes(text, searchString) ==
    \E k \in 1..(Len(text) - Len(searchString) + 1) :
       SubSeq(text, k, k + Len(searchString) - 1) = searchString

IsRetriable_AllErrors(e) == TRUE

\* e.toString().includes('overloaded') || e.toString().includes('UNAVAILABLE')
IsRetriable(e) ==
    \/ Includes(e, <<111, 118, 101, 114, 108, 111, 97, 100, 101, 100>>)
    \/ Includes(e, <<85, 78, 65, 86, 65, 73, 76, 65, 66, 76, 69>>)

\* Math.pow(2, i)
RECURSIVE Pow2(_)
Pow2(n) == IF n = 0 THEN 1 ELSE 2 * Pow2(n - 1)

\* const delay = (Math.pow(2, i) * 1000) + (Math.random() * 1000)
BackoffDelay(i, jitter) == Pow2(i) * 1000 + jitter

\* The outcome of one apiCall(): a resolved value or a rejection.
Ok(v) == [ok |-> TRUE, val |-> v, err |-> None]
Err(e) == [ok |-> FALSE, val |-> None, err |-> Some(e)]

\* A withRetry activation at entry: lastError = null, i = 0, about to call.
\* pc: "attempt" (at apiCall), "backoff" (awaiting the setTimeout),
\* "returned", "thrown". attempts counts apiCall invocations and waits the
\* backoff timers started.
RetryStart ==
    [pc |-> "attempt", i |-> 0, lastError |-> None, value |-> None,
     thrown |-> None, attempts |-> 0, waits |-> 0]

RetryAttempt_KeepFirstError(c, out) ==
    IF out.ok
    THEN [c EXCEPT !.pc = "returned", !.value = Some(out.val),
                   !.attempts = c.attempts + 1]
    ELSE IF IsRetriable(Val(out.err))
         THEN [c EXCEPT !.pc = "backoff",
                        !.lastError = IF IsSome(c.lastError) THEN c.lastError ELSE out.err,
                        !.attempts = c.attempts + 1,
                        !.waits = c.waits + 1]
         ELSE [c EXCEPT !.pc = "thrown", !.lastError = out.err,
                        !.thrown = out.err, !.attempts = c.attempts + 1]

\* One pass of the loop body: try { return await apiCall() } catch (e) {...}
RetryAttempt(c, out) ==
    IF out.ok
    THEN [c EXCEPT !.pc = "returned", !.value = Some(out.val),
                   !.attempts = c.attempts + 1]
    ELSE IF IsRetriable(Val(out.err))
         THEN [c EXCEPT !.pc = "backoff", !.lastError = out.err,
                        !.attempts = c.attempts + 1,
                        !.waits = c.waits + 1]
         ELSE [c EXCEPT !.pc = "thrown", !.lastError = out.err,
                        !.thrown = out.err, !.attempts = c.attempts + 1]

RetryWake_OneMore(c) ==
    IF c.i + 1 < MAX_RETRIES + 1
    THEN [c EXCEPT !.pc = "attempt", !.i = c.i + 1]
    ELSE [c EXCEPT !.pc = "thrown", !.i = c.i + 1,
                   !.thrown = IF IsSome(c.lastError) THEN c.lastError
                              ELSE Some(E_FALLBACK)]

RetryWake_OneFewer(c) ==
    IF c.i + 1 < MAX_RETRIES - 1
    THEN [c EXCEPT !.pc = "attempt", !.i = c.i + 1]
    ELSE [c EXCEPT !.pc = "thrown", !.i = c.i + 1,
                   !.thrown = IF IsSome(c.lastError) THEN c.lastError
                              ELSE Some(E_FALLBACK)]

\* The backoff timer resolves: i++, then the loop test i < MAX_RETRIES, and
\* after the loop: throw lastError || new Error(...)
RetryWake(c) ==
    IF c.i + 1 < MAX_RETRIES
    THEN [c EXCEPT !.pc = "attempt", !.i = c.i + 1]
    ELSE [c EXCEPT !.pc = "thrown", !.i = c.i + 1,
                   !.thrown = IF IsSome(c.lastError) THEN c.lastError
                              ELSE Some(E_FALLBACK)]

\* A standalone withRetry(apiCall) activation with generic result values.
RetryOutcomes == {Ok(v) : v \in {"r1", "r2"}} \cup {Err(e) : e \in Errors}

(***************************************************************************)
(* The AI service's response bodies and their parsing                      *)
(***************************************************************************)

\* A response body: text that JSON.parse accepts (json) with the object it
\* denotes, or text it rejects.
JsonBody(obj) == [json |-> TRUE, body |-> obj]
Malformed == [json |-> FALSE, body |-> <<>>]

\* JSON.parse(response.text.trim()): the object, or None when it throws.
JsonParse(resp) == IF resp.json THEN Some(resp.body) ELSE None

\* The value of the longest prefix of digits of chars ("0" to "9" are 48 to
\* 57), from position k with acc the value read so far and seen whether a
\* digit was read.
RECURSIVE ParseDigits(_, _, _, _)
ParseDigits(chars, k, acc, seen) ==
    IF k <= Len(chars) /\ chars[k] \in 48..57
    THEN ParseDigits(chars, k + 1, 10 * acc + (chars[k] - 48), TRUE)
    ELSE IF seen THEN Some(acc) ELSE None

\* The white space parseInt skips (StrWhiteSpaceChar): tab, line feed,
\* vertical tab, form feed, carriage return, space, no-break space, the
\* Unicode space separators (U+1680, U+2000 to U+200A, U+202F, U+205F,
\* U+3000), the line and paragraph separators (U+2028, U+2029) and the byte
\* order mark (U+FEFF).
WhiteSpace ==
    {9, 10, 11, 12, 13, 32, 160, 5760} \cup (8192..8202)
    \cup {8232, 8233, 8239, 8287, 12288, 65279}

\* The position of the first character of chars, from k on, that is not white
\* space (Len(chars) + 1 when there is none).
RECURSIVE SkipWhiteSpace(_, _)
SkipWhiteSpace(chars, k) ==
    IF k <= Len(chars) /\ chars[k] \in WhiteSpace
    THEN SkipWhiteSpace(chars, k + 1)
    ELSE k

\* parseInt(word, 10) of a word given as its characters: leading white space
\* is skipped, then an optional sign ("-" is 45, "+" is 43), then the leading
\* digits; None is NaN.
ParseInt(chars) ==
    LET s == SkipWhiteSpace(chars, 1)
    IN IF s <= Len(chars) /\ chars[s] = 45
       THEN LET r == ParseDigits(chars, s + 1, 0, FALSE)
            IN IF IsSome(r) THEN Some(0 - Val(r)) ELSE None
       ELSE IF s <= Len(chars) /\ chars[s] = 43
            THEN ParseDigits(chars, s + 1, 0, FALSE)
            ELSE ParseDigits(chars, s, 0, FALSE)

\* RideDetails.eta texts, as text.split(' ') sees them: the words, each the
\* sequence of its code units: "3 min", "2 min" and "soon".
ETA_3_MIN == << <<51>>, <<109, 105, 110>> >>
ETA_2_MIN == << <<50>>, <<109, 105, 110>> >>
ETA_SOON == << <<115, 111, 111, 110>> >>
EtaTexts == {ETA_3_MIN, ETA_2_MIN, ETA_SOON}

\* parseInt(rideDetails.eta.split(' ')[0], 10)
ParseEta(eta) == ParseInt(eta[1])

(***************************************************************************)
(* State                                                                   *)
(***************************************************************************)

\* app: the App component's state: what BookingView is handed, the view
\*     shown, whether the device is a mobile one (set on mount from the user
\*     agent) and whether the voice assistant is open.
\* bv: the state of the BookingView component that is mounted, or was last,
\*     and isProcessing of the GooglePayModal it mounts; inst numbers the
\*     instances of BookingView that React has mounted (each call and each
\*     payment timer holds the instance whose closure it will run).
\* pend: what the event loop holds for the component: the fare effect's
\*     debounce timers, the estimateFare, generateRideDetails and
\*     getPersonalizedSuggestions calls in flight with the state of the
\*     withRetry activation of each,
\*     payment timers (a bag) with the closure each captured, and whether the
\*     tracking effect's moveInterval and etaInterval are running.
\* obs: observations used to state properties: rideSeq numbers the
\*     generateRideDetails calls (the identity of the object each returns),
\*     etaToasts counts the "2 minutes away" toasts of the current ride,
\*     cancelled holds the rides handleCancelRide has cancelled, moves
\*     counts the ticks of moveInterval, shareErrors holds the errors that
\*     sharing has raised ("share": navigator.share rejected and the catch
\*     logged it; "copy": the Copy button threw for want of a clipboard).
\* rcall, rlog, rwaits: a withRetry activation studied on its own, the
\*     outcomes its apiCall has produced so far and the delays of the backoff
\*     timers it has set.
VARIABLES app, bv, pend, obs, rcall, rlog, rwaits

retryVars == <<rcall, rlog, rwaits>>

vars == <<app, bv, pend, obs, rcall, rlog, rwaits>>

\* Bounds of the model.
MaxRides == 1
MaxPayTimers == 2
MaxFareCalls == 2
MaxCount == 2
MaxMoves == 2
MaxShares == 1
MaxMounts == 2
MaxDrift == 41

TOAST_2MIN == "Your driver is 2 minutes away!"
TOAST_CANCELLED == "Your ride has been cancelled."
TOAST_SELECT_REASON == "Please select a reason."
TOAST_PAYMENT_OK == "Payment successful!"

\* The loading messages of the SEARCHING view.
LOADING_INITIAL == "Finding your ride..."
LoadingMessages ==
    <<"Contacting nearby drivers...", "Calculating the fastest route...",
      "Checking traffic conditions...", "Finalizing your trip details...">>
MSG_VALIDATION == "Please enter both pickup and destination."
MSG_NO_RIDE == "Could not find a ride. Please try again later."

CANCELLATION_REASONS ==
    {"Driver is too far", "Changed my mind", "Booked by mistake",
     "Longer wait time than expected", "Found another ride"}

\* The reasons the user picks among.
UserReasons == {"Changed my mind", "Driver is too far"}

\* The payment methods App starts with.
InitialPaymentMethods ==
    {[id |-> "CASH", type |-> "CASH"], [id |-> "1", type |-> "CARD"]}

\* enum RideStatus
RideStatus == {"IDLE", "SEARCHING", "CONFIRMED", "PAID", "COMPLETED", "ERROR"}

\* useState's initial values in App.
InitApp ==
    [pickup |-> "", destination |-> "", vehicle |-> "CAR", passengerCount |-> 1,
     toastMessage |-> None, rideHistory |-> <<>>,
     paymentMethods |-> InitialPaymentMethods,
     currentView |-> "BOOKING", initialExploreQuery |-> "",
     isMobile |-> FALSE, isVoiceAssistantOpen |-> FALSE]

\* What JSON.parse(localStorage.getItem('chalorideHistory')) may give on
\* mount: nothing stored leaves the history empty; or a CompletedRide of an
\* earlier session (ride 0: none of this session's generateRideDetails calls
\* returned it).
StoredHistories ==
    {<<>>,
     <<[pickup |-> "MG", destination |-> "MG",
        details |-> [eta |-> ETA_3_MIN, ride |-> 0]]>>}

\* App's mount effects, run before BookingView is shown: isMobile from the
\* user agent, rideHistory from localStorage.
MountApp(isMobileDevice, storedHistory) ==
    [InitApp EXCEPT !.isMobile = isMobileDevice, !.rideHistory = storedHistory]

InitBV ==
    [rideStatus |-> "IDLE", rideDetails |-> None, error |-> None,
     payingMethodId |-> None, cancellationStep |-> "idle",
     cancellationReason |-> "", fareEstimate |-> None, isEstimating |-> FALSE,
     dynamicEta |-> None, rideTrackingLink |-> None, isGPayModalOpen |-> FALSE,
     isProcessing |-> FALSE, driverPosition |-> [top |-> 40, left |-> 60],
     suggestions |-> <<>>, isLoadingSuggestions |-> TRUE,
     isShareModalOpen |-> FALSE, loadingMessage |-> LOADING_INITIAL,
     inst |-> 1]

\* The (pickup, destination, vehicle, passengerCount) of a render.
FareInputs(a) ==
    [p |-> a.pickup, d |-> a.destination, v |-> a.vehicle, pc |-> a.passengerCount]

\* setTimeout(async () => {...}, 500)
DEBOUNCE_MS == 500

\* The timer debouncedEstimate(p, d, v, pc) sets, holding its arguments.
DebounceTimer(args) == [args |-> args, delay |-> DEBOUNCE_MS]

\* On mount the fare effect has run once, its timer is pending, and the
\* suggestions effect has called getPersonalizedSuggestions.
InitPend ==
    [debounceTimers |-> {DebounceTimer(FareInputs(InitApp))}, fareCalls |-> <<>>,
     searchCalls |-> <<>>, payTimers |-> EmptyBag, moveInterval |-> FALSE, etaInterval |-> FALSE,
     suggestionCalls |-> <<[rt |-> RetryStart, inst |-> 1]>>, shareCalls |-> 0, rotator |-> None]

InitObs ==
    [rideSeq |-> 0, etaToasts |-> 0, cancelled |-> {}, moves |-> 0,
     shareErrors |-> {}]

\* BookingView as it is first shown: App's mount effects have run, on a
\* mobile device or not, with or without a stored history.
Init ==
    /\ \E isMobileDevice \in BOOLEAN, storedHistory \in StoredHistories :
          app = MountApp(isMobileDevice, storedHistory)
    /\ bv = InitBV
    /\ pend = InitPend
    /\ obs = InitObs
    /\ rcall = RetryStart
    /\ rlog = <<>>
    /\ rwaits = <<>>

\* BookingView first shown in a desktop browser with nothing stored.
DesktopInit == Init /\ app = MountApp(FALSE, <<>>)

\* BookingView first shown on a mobile device with nothing stored.
MobileInit == Init /\ app = MountApp(TRUE, <<>>)

\* The state as one value, for the handlers to transform.
W == [app |-> app, bv |-> bv, pend |-> pend, obs |-> obs]

\* BookingView is rendered while App shows the booking view: what it draws
\* can be clicked and typed into only then.
Mounted == app.currentView = "BOOKING"

\* The commit of an event's state updates: the state v that the handler and
\* the renders after it leave.
Commit(w) ==
    \E v \in {w} :
       /\ app' = v.app
       /\ bv' = v.bv
       /\ pend' = v.pend
       /\ obs' = v.obs
       /\ UNCHANGED retryVars

Min(a, b) == IF a < b THEN a ELSE b
Max(a, b) == IF a > b THEN a ELSE b


RemoveAt(seq, k) == SubSeq(seq, 1, k - 1) \o SubSeq(seq, k + 1, Len(seq))

(***************************************************************************)
(* App                                                                     *)
(***************************************************************************)

\* App.showToast: setToastMessage(message)
showToast(w, message) ==
    [w EXCEPT !.app.toastMessage = Some(message),
              !.obs.etaToasts = IF message = TOAST_2MIN
                                THEN Min(@ + 1, MaxCount) ELSE @]

\* ToastNotification's onClose: setToastMessage(null)
closeToast(w) == [w EXCEPT !.app.toastMessage = None]

\* App.handleRideComplete: the new CompletedRide goes to the front of
\* rideHistory (its id and date, read from the clock, are left out).
handleRideComplete(w, ride) == [w EXCEPT !.app.rideHistory = <<ride>> \o @]

(***************************************************************************)
(* BookingView: effects                                                    *)
(***************************************************************************)

MaxPassengers(v) == IF v = "BIKE" THEN 1 ELSE IF v = "AUTO" THEN 4 ELSE 4

ClampEffect_Noop(w) == w

\* The clamp effect: if (passengerCount > maxPassengers) setPassengerCount(max)
ClampEffect(w) ==
    IF w.app.passengerCount > MaxPassengers(w.app.vehicle)
    THEN [w EXCEPT !.app.passengerCount = MaxPassengers(w.app.vehicle)]
    ELSE w

clearTimeout_Noop(timers) == timers

\* The fare effect's cleanup, clearTimeout(timeoutId): the pending timer, if
\* any, is the one the previous run of the effect set.
clearTimeout(timers) == {}

\* The fare effect, run when one of pickup, destination, vehicle,
\* passengerCount differs from the previous render: the cleanup of the
\* previous run, then debouncedEstimate(...) sets a new 500ms timer that
\* holds the values of this render.
FareEffect(old, w) ==
    IF FareInputs(old.app) # FareInputs(w.app)
    THEN [w EXCEPT !.pend.debounceTimers =
                       clearTimeout(@) \cup {DebounceTimer(FareInputs(w.app))}]
    ELSE w

TrackingEffect_NoSeed(old, w) ==
    IF old.bv.rideStatus # w.bv.rideStatus \/ old.bv.rideDetails # w.bv.rideDetails
       \/ old.app # w.app
    THEN [w EXCEPT !.pend.moveInterval =
                       w.bv.rideStatus = "CONFIRMED" /\ IsSome(w.bv.rideDetails),
                   !.pend.etaInterval =
                       w.bv.rideStatus = "CONFIRMED" /\ IsSome(w.bv.rideDetails)]
    ELSE w

TrackingEffect_NoCleanup(old, w) ==
    IF old.bv.rideStatus # w.bv.rideStatus \/ old.bv.rideDetails # w.bv.rideDetails
       \/ old.app # w.app
    THEN IF w.bv.rideStatus = "CONFIRMED" /\ IsSome(w.bv.rideDetails)
         THEN LET initialEta == ParseEta(Val(w.bv.rideDetails).eta)
              IN [w EXCEPT !.bv.dynamicEta = IF IsSome(initialEta) THEN initialEta ELSE @,
                           !.pend.moveInterval = TRUE,
                           !.pend.etaInterval = TRUE]
         ELSE w
    ELSE w

\* The tracking effect, deps [rideStatus, rideDetails, showToast]. showToast
\* is a new function on every render of App, so the effect runs again
\* whenever App's state changed, as well as when rideStatus or rideDetails
\* did: the cleanup clears both intervals, and when CONFIRMED with a ride
\* the ETA is seeded from rideDetails.eta and both intervals are started.
TrackingEffect(old, w) ==
    IF old.bv.rideStatus # w.bv.rideStatus \/ old.bv.rideDetails # w.bv.rideDetails
       \/ old.app # w.app
    THEN IF w.bv.rideStatus = "CONFIRMED" /\ IsSome(w.bv.rideDetails)
         THEN LET initialEta == ParseEta(Val(w.bv.rideDetails).eta)
              IN [w EXCEPT !.bv.dynamicEta = IF IsSome(initialEta) THEN initialEta ELSE @,
                           !.pend.moveInterval = TRUE,
                           !.pend.etaInterval = TRUE]
         ELSE [w EXCEPT !.pend.moveInterval = FALSE, !.pend.etaInterval = FALSE]
    ELSE w

\* GooglePayModal is mounted while isGPayModalOpen && rideDetails; its
\* isProcessing state is lost when it unmounts.
GPayModalMounted(w) == w.bv.isGPayModalOpen /\ IsSome(w.bv.rideDetails)

ModalUnmount(w) ==
    IF GPayModalMounted(w) THEN w ELSE [w EXCEPT !.bv.isProcessing = FALSE]

\* The suggestions effect, run when rideStatus or rideHistory differs from
\* the previous render (userName is fixed once BookingView is shown): while
\* IDLE, fetchSuggestions sets isLoadingSuggestions and calls
\* getPersonalizedSuggestions(userName, rideHistory), which starts a
\* withRetry activation. Nothing cancels the calls of earlier runs.
SuggestionsEffect(old, w) ==
    IF /\ old.bv.rideStatus # w.bv.rideStatus \/ old.app.rideHistory # w.app.rideHistory
       /\ w.bv.rideStatus = "IDLE"
    THEN [w EXCEPT !.bv.isLoadingSuggestions = TRUE,
                   !.pend.suggestionCalls = Append(@, [rt |-> RetryStart,
                                                       inst |-> w.bv.inst])]
    ELSE w

\* The loading-message effect, run when rideStatus differs from the previous
\* render: the cleanup clears the interval of the previous run; in SEARCHING
\* the message is set to the initial one and a 2500ms interval is started
\* with messageIndex 0 (pend.rotator holds the running interval's index).
LoadingEffect(old, w) ==
    IF old.bv.rideStatus # w.bv.rideStatus
    THEN IF w.bv.rideStatus = "SEARCHING"
         THEN [w EXCEPT !.bv.loadingMessage = LOADING_INITIAL,
                        !.pend.rotator = Some(0)]
         ELSE [w EXCEPT !.pend.rotator = None]
    ELSE w

\* The suggestions, fare, tracking and loading-message effects of a render.
Effects(old, w) ==
    LoadingEffect(old, TrackingEffect(old, FareEffect(old, SuggestionsEffect(old, w))))

\* BookingView is unmounted: the cleanups of its effects clear the debounce
\* timer and the three intervals. Payment timers and calls in flight have no
\* cleanup.
Unmount(w) ==
    [w EXCEPT !.pend.debounceTimers = clearTimeout(@),
              !.pend.moveInterval = FALSE,
              !.pend.etaInterval = FALSE,
              !.pend.rotator = None]

\* BookingView is mounted anew (App wraps the view in an element keyed by
\* currentView): every state starts from its useState value, and the effects
\* run for the first time, with the pickup, destination, vehicle and
\* passengerCount that App has kept. The suggestions effect calls
\* getPersonalizedSuggestions and the fare effect sets its timer; rideStatus
\* being IDLE, the tracking and loading-message effects start nothing.
Mount(old, w) ==
    LET m == [w EXCEPT !.bv = [InitBV EXCEPT !.inst = old.bv.inst + 1]]
        a == [m EXCEPT !.pend.suggestionCalls = Append(@, [rt |-> RetryStart,
                                                           inst |-> m.bv.inst]),
                       !.pend.debounceTimers = {DebounceTimer(FareInputs(m.app))}]
        c == ClampEffect(a)
    IN IF c = a THEN a ELSE Effects(a, c)

\* The state a callback of BookingView instance inst leaves, v, seen from the
\* state w it ran in: when that instance is no longer the one mounted, its
\* state setters do nothing; what the callback did to App and to the event
\* loop stands.
Callback(w, inst, v) ==
    IF w.app.currentView = "BOOKING" /\ inst = w.bv.inst
    THEN v
    ELSE [v EXCEPT !.bv = w.bv, !.obs = w.obs]

\* The renders that follow a handler: old is the state before it and w the
\* state it left. While BookingView is not shown no effect of it runs, and
\* App showing the booking view again mounts a new BookingView. App showing
\* another view unmounts BookingView. Otherwise the effects run against the
\* previous render; the clamp effect may set passengerCount, which renders
\* once more.
Render(old, w) ==
    IF old.app.currentView # "BOOKING"
    THEN IF w.app.currentView = "BOOKING"
         THEN Mount(old, [w EXCEPT !.bv = old.bv])
         ELSE [w EXCEPT !.bv = old.bv]
    ELSE IF w.app.currentView # "BOOKING"
         THEN Unmount(w)
         ELSE LET a == Effects(old, w)
                  c == ClampEffect(a)
              IN ModalUnmount(IF c = a THEN a ELSE Effects(a, c))

(***************************************************************************)
(* BookingView: handlers                                                   *)
(***************************************************************************)

handleNewRide_KeepsEstimate(w) ==
    [w EXCEPT !.bv.rideStatus = "IDLE",
              !.bv.rideDetails = None,
              !.app.pickup = "",
              !.app.destination = "",
              !.bv.error = None,
              !.bv.dynamicEta = None,
              !.bv.cancellationStep = "idle",
              !.bv.cancellationReason = "",
              !.bv.rideTrackingLink = None,
              !.bv.isShareModalOpen = FALSE]

\* handleNewRide (selectedRide and isShowingHistory, which only choose what
\* is drawn, are left out).
handleNewRide(w) ==
    [w EXCEPT !.bv.rideStatus = "IDLE",
              !.bv.rideDetails = None,
              !.app.pickup = "",
              !.app.destination = "",
              !.bv.fareEstimate = None,
              !.bv.error = None,
              !.bv.dynamicEta = None,
              !.bv.cancellationStep = "idle",
              !.bv.cancellationReason = "",
              !.bv.rideTrackingLink = None,
              !.bv.isShareModalOpen = FALSE]

handleCancelRide(w) ==
    IF w.bv.cancellationStep = "reason" /\ w.bv.cancellationReason = ""
    THEN showToast(w, TOAST_SELECT_REASON)
    ELSE LET w1 == handleNewRide(showToast(w, TOAST_CANCELLED))
         IN [w1 EXCEPT !.obs.cancelled =
                 IF IsSome(w.bv.rideDetails)
                 THEN @ \cup {Val(w.bv.rideDetails).ride} ELSE @]

\* What completeRideAction closes over: the rideDetails, pickup and
\* destination of the render that created it.
Closure(w) ==
    [details |-> w.bv.rideDetails, pickup |-> w.app.pickup,
     destination |-> w.app.destination]

completeRideAction_Completed(w, c) ==
    LET w1 == IF IsSome(c.details)
              THEN handleRideComplete(w, [pickup |-> c.pickup,
                                          destination |-> c.destination,
                                          details |-> Val(c.details)])
              ELSE w
    IN [w1 EXCEPT !.bv.payingMethodId = None,
                  !.bv.rideStatus = "COMPLETED",
                  !.bv.dynamicEta = None,
                  !.bv.isGPayModalOpen = FALSE]

completeRideAction_KeepsEta(w, c) ==
    LET w1 == IF IsSome(c.details)
              THEN handleRideComplete(w, [pickup |-> c.pickup,
                                          destination |-> c.destination,
                                          details |-> Val(c.details)])
              ELSE w
    IN [w1 EXCEPT !.bv.payingMethodId = None,
                  !.bv.rideStatus = "PAID",
                  !.bv.isGPayModalOpen = FALSE]

\* completeRideAction, as the closure c of some render.
completeRideAction(w, c) ==
    LET w1 == IF IsSome(c.details)
              THEN handleRideComplete(w, [pickup |-> c.pickup,
                                          destination |-> c.destination,
                                          details |-> Val(c.details)])
              ELSE w
    IN [w1 EXCEPT !.bv.payingMethodId = None,
                  !.bv.rideStatus = "PAID",
                  !.bv.dynamicEta = None,
                  !.bv.isGPayModalOpen = FALSE]

\* handlePayment: GOOGLE_PAY opens the modal; every other type starts a timer
\* (500ms for CASH, 2000ms otherwise) that calls completeRideAction.
handlePayment(w, method) ==
    LET w1 == [w EXCEPT !.bv.payingMethodId = Some(method.id)]
    IN IF method.type = "GOOGLE_PAY"
       THEN [w1 EXCEPT !.bv.isGPayModalOpen = TRUE]
       ELSE [w1 EXCEPT !.pend.payTimers =
                @ (+) SetToBag({[kind |-> "PAY",
                                 delay |-> IF method.type = "CASH" THEN 500 ELSE 2000,
                                 c |-> Closure(w), inst |-> w.bv.inst]})]

\* GooglePayModal.handlePay: isProcessing, and a 2500ms timer that calls the
\* onSuccess it was rendered with (handleGPaySuccess).
handlePay(w) ==
    [w EXCEPT !.bv.isProcessing = TRUE,
              !.pend.payTimers = @ (+) SetToBag({[kind |-> "GPAY", delay |-> 2500,
                                                  c |-> Closure(w),
                                                  inst |-> w.bv.inst]})]

handleGPaySuccess(w, c) == completeRideAction(showToast(w, TOAST_PAYMENT_OK), c)

handleGPayCancel_KeepsSpinner(w) ==
    [w EXCEPT !.bv.isGPayModalOpen = FALSE]

\* handleGPayCancel: closes the modal and stops the spinner on the button.
handleGPayCancel(w) ==
    [w EXCEPT !.bv.isGPayModalOpen = FALSE, !.bv.payingMethodId = None]

\* A payment timer fires: the callback of the instance that set it runs.
payTimerCallback(w, t) ==
    Callback(w, t.inst,
             IF t.kind = "GPAY" THEN handleGPaySuccess(w, t.c)
             ELSE completeRideAction(w, t.c))

handleFindRide_NoValidation(w) ==
    [w EXCEPT !.bv.error = None,
              !.bv.rideStatus = "SEARCHING",
              !.pend.searchCalls = Append(@, [rt |-> RetryStart,
                                              ride |-> w.obs.rideSeq + 1,
                                              inst |-> w.bv.inst]),
              !.obs.rideSeq = @ + 1]

\* handleFindRide up to its await: the validation, then SEARCHING and the
\* generateRideDetails call, which starts a withRetry activation.
handleFindRide(w) ==
    IF w.app.pickup = "" \/ w.app.destination = ""
    THEN [w EXCEPT !.bv.error = Some(MSG_VALIDATION)]
    ELSE [w EXCEPT !.bv.error = None,
                   !.bv.rideStatus = "SEARCHING",
                   !.pend.searchCalls = Append(@, [rt |-> RetryStart,
                                                   ride |-> w.obs.rideSeq + 1,
                                                   inst |-> w.bv.inst]),
                   !.obs.rideSeq = @ + 1]

findRideCatch_NoMessage(w) == [w EXCEPT !.bv.rideStatus = "ERROR"]

\* handleFindRide's catch block.
findRideCatch(w) ==
    [w EXCEPT !.bv.error = Some(MSG_NO_RIDE), !.bv.rideStatus = "ERROR"]

\* handleFindRide after the await resolved with details: the object call
\* number ride returned. The tracking link is keyed by a fresh identifier.
findRideResolved(w, details, ride) ==
    [w EXCEPT !.bv.rideDetails = Some([eta |-> details.eta, ride |-> ride]),
              !.bv.rideStatus = "CONFIRMED",
              !.bv.rideTrackingLink = Some(ride),
              !.obs.etaToasts = 0]

\* generateRideDetails call k moves to retry state rt: while withRetry is
\* still going the call stays in flight; when it returned, the body is parsed
\* and handleFindRide continues, in its catch block if the parse threw or
\* withRetry did.
searchSettle(w, k, rt) ==
    LET call == w.pend.searchCalls[k]
        done == [w EXCEPT !.pend.searchCalls = RemoveAt(@, k)]
    IN CASE rt.pc = "returned" ->
              LET parsed == JsonParse(Val(rt.value))
              IN Callback(w, call.inst,
                          IF IsSome(parsed)
                          THEN findRideResolved(done, Val(parsed), call.ride)
                          ELSE findRideCatch(done))
         [] rt.pc = "thrown" -> Callback(w, call.inst, findRideCatch(done))
         [] OTHER -> [w EXCEPT !.pend.searchCalls[k].rt = rt]

\* The etaInterval callback: setDynamicEta(prevEta => ...)
etaTick(w) ==
    LET prevEta == w.bv.dynamicEta
    IN IF IsSome(prevEta) /\ Val(prevEta) > 0
       THEN LET newEta == Val(prevEta) - 1
                w1 == IF newEta = 2 THEN showToast(w, TOAST_2MIN) ELSE w
            IN [w1 EXCEPT !.bv.dynamicEta = Some(newEta)]
       ELSE [w EXCEPT !.bv.dynamicEta = Some(0)]

\* (Math.random() - 0.5) * 4, a number from -2 up to but not 2.
Drifts == {-2, 1}

moveTick_NoClamp(w, dTop, dLeft) ==
    LET newTop == w.bv.driverPosition.top + dTop
        newLeft == w.bv.driverPosition.left + dLeft
    IN [w EXCEPT !.bv.driverPosition = [top |-> newTop, left |-> newLeft],
                 !.obs.moves = @ + 1]

\* The moveInterval callback: setDriverPosition(prev => ...). The position is
\* kept as the numbers of its percentages ('40%' is 40, as parseFloat reads
\* it back).
moveTick(w, dTop, dLeft) ==
    LET newTop == w.bv.driverPosition.top + dTop
        newLeft == w.bv.driverPosition.left + dLeft
    IN [w EXCEPT !.bv.driverPosition = [top |-> Max(10, Min(80, newTop)),
                                        left |-> Max(10, Min(90, newLeft))],
                 !.obs.moves = @ + 1]

debounceFire_AlwaysCalls(w, t) ==
    LET w1 == [w EXCEPT !.pend.debounceTimers = @ \ {t}]
    IN [w1 EXCEPT !.bv.isEstimating = TRUE,
                  !.bv.fareEstimate = None,
                  !.pend.fareCalls = Append(@, [req |-> t.args, rt |-> RetryStart,
                                               inst |-> w.bv.inst])]

\* The debounce timer t fires: with both texts longer than 2 characters the
\* estimate is cleared and estimateFare(p, d, v, pc) is called, which starts
\* a withRetry activation.
debounceFire(w, t) ==
    LET w1 == [w EXCEPT !.pend.debounceTimers = @ \ {t}]
    IN IF Len(t.args.p) > 2 /\ Len(t.args.d) > 2
       THEN [w1 EXCEPT !.bv.isEstimating = TRUE,
                       !.bv.fareEstimate = None,
                       !.pend.fareCalls = Append(@, [req |-> t.args, rt |-> RetryStart,
                                               inst |-> w.bv.inst])]
       ELSE [w1 EXCEPT !.bv.fareEstimate = None]

fareSettle_SurfacesError(w, k, rt) ==
    LET parsed == IF rt.pc = "returned" THEN JsonParse(Val(rt.value)) ELSE None
        w1 == [w EXCEPT !.pend.fareCalls = RemoveAt(@, k), !.bv.isEstimating = FALSE]
    IN IF rt.pc \in {"attempt", "backoff"}
       THEN [w EXCEPT !.pend.fareCalls[k].rt = rt]
       ELSE Callback(w, w.pend.fareCalls[k].inst,
                     IF IsSome(parsed) THEN [w1 EXCEPT !.bv.fareEstimate = parsed]
                     ELSE [w1 EXCEPT !.bv.error = Some(MSG_NO_RIDE)])

\* estimateFare call k moves to retry state rt: while withRetry is still
\* going the call stays in flight; when it ended, the parsed estimate is shown
\* unless withRetry or the parse threw, and finally isEstimating is cleared.
fareSettle(w, k, rt) ==
    LET parsed == IF rt.pc = "returned" THEN JsonParse(Val(rt.value)) ELSE None
        w1 == [w EXCEPT !.pend.fareCalls = RemoveAt(@, k), !.bv.isEstimating = FALSE]
    IN IF rt.pc \in {"attempt", "backoff"}
       THEN [w EXCEPT !.pend.fareCalls[k].rt = rt]
       ELSE Callback(w, w.pend.fareCalls[k].inst,
                     IF IsSome(parsed) THEN [w1 EXCEPT !.bv.fareEstimate = parsed]
                     ELSE w1)

\* The loading-message interval callback: the next message, cyclically.
rotatorTick(w) ==
    LET messageIndex == (Val(w.pend.rotator) + 1) % Len(LoadingMessages)
    IN [w EXCEPT !.pend.rotator = Some(messageIndex),
                 !.bv.loadingMessage = LoadingMessages[messageIndex + 1]]

\* handleShareRequest up to its await: nothing without a ride and its link;
\* navigator.share(...) is called where the browser has it (hasShare), else
\* the share modal is opened.
handleShareRequest(w, hasShare) ==
    IF w.bv.rideDetails = None \/ w.bv.rideTrackingLink = None
    THEN w
    ELSE IF hasShare
         THEN [w EXCEPT !.pend.shareCalls = @ + 1]
         ELSE [w EXCEPT !.bv.isShareModalOpen = TRUE]

\* navigator.share settles: a toast when it resolved, only console.error
\* when it rejected (showToast sets App's state, whichever BookingView
\* called).
shareSettle(w, ok) ==
    LET w1 == [w EXCEPT !.pend.shareCalls = @ - 1]
    IN IF ok THEN showToast(w1, "Ride status shared!")
       ELSE [w1 EXCEPT !.obs.shareErrors = @ \cup {"share"}]

\* The share modal's Copy button, with a link: where the browser has
\* navigator.clipboard (hasClipboard) writeText is called, its promise left
\* alone, and the toast is shown; where it has none, reading writeText of
\* undefined throws a TypeError out of the handler before showToast.
handleCopy(w, hasClipboard) ==
    IF IsSome(w.bv.rideTrackingLink)
    THEN IF hasClipboard
         THEN showToast(w, "Link copied to clipboard!")
         ELSE [w EXCEPT !.obs.shareErrors = @ \cup {"copy"}]
    ELSE w

\* getPersonalizedSuggestions after withRetry returned: the parsed list, or
\* the empty list when JSON.parse throws.
parseSuggestions(resp) ==
    LET parsed == JsonParse(resp)
    IN IF IsSome(parsed) THEN Val(parsed) ELSE <<>>

\* getPersonalizedSuggestions call k moves to retry state rt: while withRetry
\* is still going the call stays in flight; when it ended, the list is set
\* unless withRetry threw (the catch is silent), and finally
\* isLoadingSuggestions is cleared.
suggestSettle(w, k, rt) ==
    LET w1 == [w EXCEPT !.pend.suggestionCalls = RemoveAt(@, k),
                        !.bv.isLoadingSuggestions = FALSE]
        inst == w.pend.suggestionCalls[k].inst
    IN CASE rt.pc = "returned" ->
              Callback(w, inst,
                       [w1 EXCEPT !.bv.suggestions = parseSuggestions(Val(rt.value))])
         [] rt.pc = "thrown" -> Callback(w, inst, w1)
         [] OTHER -> [w EXCEPT !.pend.suggestionCalls[k].rt = rt]

\* handleSuggestionClick: a BOOK_RIDE suggestion fills the destination, an
\* EXPLORE suggestion opens the explore view with its query.
handleSuggestionClick(w, suggestion) ==
    IF suggestion.type = "BOOK_RIDE"
    THEN showToast([w EXCEPT !.app.destination = suggestion.payload],
                   "Destination set to " \o suggestion.title)
    ELSE IF suggestion.type = "EXPLORE"
         THEN [w EXCEPT !.app.initialExploreQuery = suggestion.payload,
                        !.app.currentView = "EXPLORE"]
         ELSE w

(***************************************************************************)
(* Events: user actions on what is rendered, timers, and calls settling    *)
(***************************************************************************)

\* Place names the user types. Those of the ride lifecycle are too short for
\* the fare estimator to issue a call (p.length > 2 && d.length > 2); the
\* estimator's calls are studied with the longer ones, under FareSpec.
RidePlaces == {"MG"}

\* What the service may answer one attempt of a call with.
ServiceErrors == {E_OVERLOADED, E_NETWORK}
RideBodies == {JsonBody([eta |-> e]) : e \in EtaTexts} \cup {Malformed}
SearchOutcomes == {Ok(b) : b \in RideBodies} \cup {Err(e) : e \in ServiceErrors}
\* A fare body carries the request it answers (for), to tell estimates apart.
FareBodies(req) == {JsonBody([estimatedFare |-> "120", for |-> req]), Malformed}
FareOutcomes(req) == {Ok(b) : b \in FareBodies(req)} \cup {Err(e) : e \in ServiceErrors}

\* The IDLE form: onChange of the pickup input.
TypePickup(places) ==
    /\ Mounted
    /\ bv.rideStatus = "IDLE"
    /\ \E p \in places :
          /\ p # app.pickup
          /\ Commit(Render(W, [W EXCEPT !.app.pickup = p]))

\* The IDLE form: onChange of the destination input.
TypeDestination(places) ==
    /\ Mounted
    /\ bv.rideStatus = "IDLE"
    /\ \E d \in places :
          /\ d # app.destination
          /\ Commit(Render(W, [W EXCEPT !.app.destination = d]))

\* The vehicle selector: onClick={() => setVehicle(v)}
SelectVehicle ==
    /\ Mounted
    /\ bv.rideStatus = "IDLE"
    /\ \E v \in {"BIKE", "AUTO", "CAR"} :
          /\ v # app.vehicle
          /\ Commit(Render(W, [W EXCEPT !.app.vehicle = v]))

EnterPickup == TypePickup(RidePlaces)
EnterDestination == TypeDestination(RidePlaces)
EditPickup == TypePickup({"MG", "MG Road"})
EditDestination == TypeDestination({"Bus Stand"})

\* The 500ms debounce timer fires.
DebounceFire ==
    \E t \in pend.debounceTimers :
       /\ (Len(t.args.p) > 2 /\ Len(t.args.d) > 2) => Len(pend.fareCalls) < MaxFareCalls
       /\ Commit(Render(W, debounceFire(W, t)))

\* The service answers one attempt of an estimateFare call.
FareAttempt ==
    \E k \in DOMAIN pend.fareCalls :
       /\ pend.fareCalls[k].rt.pc = "attempt"
       /\ \E out \in FareOutcomes(pend.fareCalls[k].req) :
             Commit(Render(W, fareSettle(W, k, RetryAttempt(pend.fareCalls[k].rt, out))))

\* The service answers the first attempt of an estimateFare call with a body
\* or with an error that withRetry does not retry (the retries of the call
\* are followed under FareSpec).
FareAnswer ==
    \E k \in DOMAIN pend.fareCalls :
       /\ pend.fareCalls[k].rt.pc = "attempt"
       /\ \E out \in FareOutcomes(pend.fareCalls[k].req) :
             /\ IF out.ok THEN TRUE ELSE ~IsRetriable(Val(out.err))
             /\ Commit(Render(W, fareSettle(W, k, RetryAttempt(pend.fareCalls[k].rt, out))))

\* The backoff timer of an estimateFare call fires.
FareWake ==
    \E k \in DOMAIN pend.fareCalls :
       /\ pend.fareCalls[k].rt.pc = "backoff"
       /\ Commit(Render(W, fareSettle(W, k, RetryWake(pend.fareCalls[k].rt))))

\* What the service may answer a suggestions request with: a ride to book
\* and a place to explore, or a body that is not JSON.
SuggestBodies ==
    {JsonBody(<<[type |-> "BOOK_RIDE", title |-> "Go to Basavakalyan Fort",
                 payload |-> "Basavakalyan Fort"],
                [type |-> "EXPLORE", title |-> "Explore Anubhava Mantapa",
                 payload |-> "Anubhava Mantapa history"]>>),
     Malformed}
SuggestOutcomes == {Ok(b) : b \in SuggestBodies} \cup {Err(e) : e \in ServiceErrors}

\* The service answers one attempt of a getPersonalizedSuggestions call.
SuggestAttempt ==
    \E k \in DOMAIN pend.suggestionCalls :
       /\ pend.suggestionCalls[k].rt.pc = "attempt"
       /\ \E out \in SuggestOutcomes :
             Commit(Render(W, suggestSettle(W, k,
                    RetryAttempt(pend.suggestionCalls[k].rt, out))))

\* The backoff timer of a getPersonalizedSuggestions call fires.
SuggestWake ==
    \E k \in DOMAIN pend.suggestionCalls :
       /\ pend.suggestionCalls[k].rt.pc = "backoff"
       /\ Commit(Render(W, suggestSettle(W, k, RetryWake(pend.suggestionCalls[k].rt))))

\* A suggestion card of the IDLE view, drawn once the suggestions are loaded.
SuggestionClick ==
    /\ Mounted
    /\ bv.rideStatus = "IDLE"
    /\ ~bv.isLoadingSuggestions
    /\ \E i \in DOMAIN bv.suggestions :
          Commit(Render(W, handleSuggestionClick(W, bv.suggestions[i])))

\* App's footer: a NavItem. Explore resets the explore query; the view
\* chosen is shown (the booking view at most MaxMounts times).
NavItemClick ==
    \E view \in {"BOOKING", "CHAT", "EXPLORE", "PAYMENT"} :
       /\ (view = "BOOKING" /\ ~Mounted) => bv.inst < MaxMounts
       /\ Commit(Render(W, [W EXCEPT !.app.initialExploreQuery =
                                         IF view = "EXPLORE" THEN "" ELSE @,
                                     !.app.currentView = view]))

\* App's header: the profile button shows the payment view (setting the
\* view that is shown already renders nothing).
ProfileClick ==
    /\ app.currentView # "PAYMENT"
    /\ Commit(Render(W, [W EXCEPT !.app.currentView = "PAYMENT"]))

\* App's voice-assistant button, drawn on a mobile device in the booking
\* view: setIsVoiceAssistantOpen(true).
VoiceOpen ==
    /\ Mounted
    /\ app.isMobile
    /\ Commit(Render(W, [W EXCEPT !.app.isVoiceAssistantOpen = TRUE]))

\* The voice assistant calls its onClose: setIsVoiceAssistantOpen(false).
VoiceClose ==
    /\ app.isVoiceAssistantOpen
    /\ Commit(Render(W, [W EXCEPT !.app.isVoiceAssistantOpen = FALSE]))

\* The Find Ride button (rendered in the IDLE view, disabled while a field
\* is empty).
FindRide ==
    /\ Mounted
    /\ bv.rideStatus = "IDLE"
    /\ app.pickup # "" /\ app.destination # ""
    /\ obs.rideSeq < MaxRides
    /\ Commit(Render(W, handleFindRide(W)))

\* The service answers one attempt of a generateRideDetails call.
SearchAttempt ==
    \E k \in DOMAIN pend.searchCalls :
       /\ pend.searchCalls[k].rt.pc = "attempt"
       /\ \E out \in SearchOutcomes :
             Commit(Render(W, searchSettle(W, k,
                    RetryAttempt(pend.searchCalls[k].rt, out))))

\* The backoff timer of a generateRideDetails call fires.
SearchWake ==
    \E k \in DOMAIN pend.searchCalls :
       /\ pend.searchCalls[k].rt.pc = "backoff"
       /\ Commit(Render(W, searchSettle(W, k, RetryWake(pend.searchCalls[k].rt))))

\* RideDetailsCard is rendered while CONFIRMED with a ride.
CardRendered == bv.rideStatus = "CONFIRMED" /\ IsSome(bv.rideDetails)

\* RideDetailsCard: "Share Ride", onShareRequest.
ShareRequest ==
    /\ Mounted
    /\ CardRendered
    /\ pend.shareCalls < MaxShares
    /\ \E hasShare \in BOOLEAN : Commit(Render(W, handleShareRequest(W, hasShare)))

\* navigator.share resolves or rejects.
ShareSettle ==
    /\ pend.shareCalls > 0
    /\ \E ok \in BOOLEAN : Commit(Render(W, shareSettle(W, ok)))

\* The share modal: "Copy", in a browser with or without a clipboard.
ShareModalCopy ==
    /\ Mounted
    /\ bv.isShareModalOpen
    /\ \E hasClipboard \in BOOLEAN : Commit(Render(W, handleCopy(W, hasClipboard)))

\* The share modal: "Close".
ShareModalClose ==
    /\ Mounted
    /\ bv.isShareModalOpen
    /\ Commit(Render(W, [W EXCEPT !.bv.isShareModalOpen = FALSE]))

\* A PaymentMethodButton, disabled while its method is the one being paid.
Pay ==
    /\ Mounted
    /\ CardRendered
    /\ \E method \in app.paymentMethods :
          /\ bv.payingMethodId # Some(method.id)
          /\ method.type # "GOOGLE_PAY" => BagCardinality(pend.payTimers) < MaxPayTimers
          /\ Commit(Render(W, handlePayment(W, method)))

\* GooglePayModal: "Pay with Google Pay", shown while not processing.
GPayPay ==
    /\ Mounted
    /\ GPayModalMounted(W)
    /\ ~bv.isProcessing
    /\ BagCardinality(pend.payTimers) < MaxPayTimers
    /\ Commit(Render(W, handlePay(W)))

\* GooglePayModal: "Cancel", shown while not processing.
GPayCancel ==
    /\ Mounted
    /\ GPayModalMounted(W)
    /\ ~bv.isProcessing
    /\ Commit(Render(W, handleGPayCancel(W)))

\* A payment timer fires (in any order: the delays differ).
PayTimerFire ==
    \E t \in BagToSet(pend.payTimers) :
       Commit(Render(W, payTimerCallback(
              [W EXCEPT !.pend.payTimers = @ (-) SetToBag({t})], t)))

\* RideDetailsCard: "Cancel Ride", onCancelRequest.
CancelRequest ==
    /\ Mounted
    /\ CardRendered
    /\ bv.cancellationStep # "confirm"
    /\ Commit(Render(W, [W EXCEPT !.bv.cancellationStep = "confirm"]))

\* The cancellation overlay, step confirm: "No, Keep Ride".
KeepRide ==
    /\ Mounted
    /\ bv.cancellationStep = "confirm"
    /\ Commit(Render(W, [W EXCEPT !.bv.cancellationStep = "idle"]))

\* The cancellation overlay, step confirm: "Yes, Cancel".
YesCancel ==
    /\ Mounted
    /\ bv.cancellationStep = "confirm"
    /\ Commit(Render(W, [W EXCEPT !.bv.cancellationStep = "reason"]))

\* The cancellation overlay, step reason: a reason button.
SelectReason ==
    /\ Mounted
    /\ bv.cancellationStep = "reason"
    /\ \E r \in UserReasons :
          /\ r # bv.cancellationReason
          /\ Commit(Render(W, [W EXCEPT !.bv.cancellationReason = r]))

\* The cancellation overlay, step reason: "Confirm Cancellation", disabled
\* while no reason is selected.
ConfirmCancellation ==
    /\ Mounted
    /\ bv.cancellationStep = "reason"
    /\ bv.cancellationReason # ""
    /\ Commit(Render(W, handleCancelRide(W)))

\* "Book Another Ride" of the PAID view, "Try Again" of the ERROR view.
NewRide ==
    /\ Mounted
    /\ bv.rideStatus \in {"PAID", "ERROR"}
    /\ Commit(Render(W, handleNewRide(W)))

\* The 60s interval of the tracking effect fires.
EtaTick ==
    /\ pend.etaInterval
    /\ Commit(Render(W, etaTick(W)))

\* The 2s interval of the tracking effect fires.
MoveTick ==
    /\ pend.moveInterval
    /\ obs.moves < MaxMoves
    /\ \E dTop \in Drifts, dLeft \in Drifts :
          Commit(Render(W, moveTick(W, dTop, dLeft)))

\* The 2500ms interval of the loading-message effect fires.
RotatorTick ==
    /\ IsSome(pend.rotator)
    /\ Commit(Render(W, rotatorTick(W)))

\* The toast closes.
ToastClose ==
    /\ IsSome(app.toastMessage)
    /\ Commit(Render(W, closeToast(W)))

\* The ride lifecycle: search, tracking, payment, cancellation.
Next ==
    \/ EnterPickup \/ EnterDestination \/ DebounceFire
    \/ FindRide \/ SearchAttempt \/ SearchWake
    \/ Pay \/ PayTimerFire
    \/ CancelRequest \/ KeepRide \/ YesCancel \/ SelectReason \/ ConfirmCancellation
    \/ NewRide \/ EtaTick \/ ToastClose
    \/ VoiceOpen \/ VoiceClose

Spec == Init /\ [][Next]_vars

\* The fare estimator: the user edits the IDLE form.
FareNext ==
    \/ EditPickup \/ EditDestination \/ SelectVehicle
    \/ DebounceFire \/ FareAttempt \/ FareWake

FareSpec == DesktopInit /\ [][FareNext]_vars

(***************************************************************************)
(* The passenger selector                                                  *)
(***************************************************************************)

\* renderPassengerSelector's handleIncrement
handleIncrement(w) ==
    IF w.app.passengerCount < MaxPassengers(w.app.vehicle)
    THEN [w EXCEPT !.app.passengerCount = @ + 1]
    ELSE w

\* renderPassengerSelector's handleDecrement
handleDecrement(w) ==
    IF w.app.passengerCount > 1
    THEN [w EXCEPT !.app.passengerCount = @ - 1]
    ELSE w

\* The plus button of the IDLE form, disabled at the vehicle's capacity.
IncrementPassengers ==
    /\ Mounted
    /\ bv.rideStatus = "IDLE"
    /\ ~(app.passengerCount >= MaxPassengers(app.vehicle))
    /\ Commit(Render(W, handleIncrement(W)))

\* The minus button of the IDLE form, disabled at one passenger.
DecrementPassengers ==
    /\ Mounted
    /\ bv.rideStatus = "IDLE"
    /\ ~(app.passengerCount <= 1)
    /\ Commit(Render(W, handleDecrement(W)))

\* The IDLE form with its vehicle and passenger selectors, the fare
\* estimator following every change (the pickup is a place the estimator
\* accepts).
FormNext ==
    \/ TypePickup({"MG Road"}) \/ EditDestination \/ SelectVehicle
    \/ IncrementPassengers \/ DecrementPassengers
    \/ DebounceFire \/ FareAnswer

FormSpec == DesktopInit /\ [][FormNext]_vars

(***************************************************************************)
(* The handlers called directly                                            *)
(***************************************************************************)

\* handleFindRide() called in the IDLE view whatever the form holds (the
\* button that calls it is disabled while a field is empty).
FindRideCall ==
    /\ Mounted
    /\ bv.rideStatus = "IDLE"
    /\ (app.pickup # "" /\ app.destination # "") => obs.rideSeq < MaxRides
    /\ Commit(Render(W, handleFindRide(W)))

\* handleCancelRide() called at the reason step whatever reason is selected
\* (the button that calls it is disabled while none is).
CancelRideCall ==
    /\ Mounted
    /\ bv.cancellationStep = "reason"
    /\ Commit(Render(W, handleCancelRide(W)))

\* The cancellation overlay, step reason: any of the listed reason buttons.
SelectListedReason ==
    /\ Mounted
    /\ bv.cancellationStep = "reason"
    /\ \E r \in CANCELLATION_REASONS :
          /\ r # bv.cancellationReason
          /\ Commit(Render(W, [W EXCEPT !.bv.cancellationReason = r]))

\* Booking and cancelling with the form's handlers called directly, the fare
\* estimator running beside them.
HandlerNext ==
    \/ EditPickup \/ EditDestination \/ DebounceFire \/ FareAnswer
    \/ FindRideCall \/ SearchAttempt \/ SearchWake
    \/ EtaTick \/ ToastClose
    \/ CancelRequest \/ YesCancel \/ SelectListedReason \/ CancelRideCall
    \/ NewRide

HandlerSpec == DesktopInit /\ [][HandlerNext]_vars

(***************************************************************************)
(* Tracking the driver                                                     *)
(***************************************************************************)

\* The Find Ride button, for the first ride of the session.
FindFirstRide ==
    /\ obs.rideSeq = 0
    /\ FindRide

\* The lifecycle of one ride with the driver's position drifting on the map.
TrackNext ==
    \/ EnterPickup \/ EnterDestination \/ DebounceFire
    \/ FindFirstRide \/ SearchAttempt \/ SearchWake
    \/ EtaTick \/ MoveTick \/ ToastClose
    \/ Pay \/ PayTimerFire
    \/ CancelRequest \/ YesCancel \/ SelectReason \/ ConfirmCancellation
    \/ NewRide
    \/ VoiceOpen \/ VoiceClose

TrackSpec == MobileInit /\ [][TrackNext]_vars

(***************************************************************************)
(* Booking again after a ride                                              *)
(***************************************************************************)

\* The Find Ride button, once more than in the ride lifecycle above.
FindRideAgain ==
    /\ Mounted
    /\ bv.rideStatus = "IDLE"
    /\ app.pickup # "" /\ app.destination # ""
    /\ obs.rideSeq < MaxRides + 1
    /\ Commit(Render(W, handleFindRide(W)))

\* A ride is booked, paid or cancelled, and another one is booked while the
\* timers of the first may still be pending.
RebookNext ==
    \/ EnterPickup \/ EnterDestination \/ DebounceFire
    \/ FindRideAgain \/ SearchAttempt \/ SearchWake
    \/ Pay \/ PayTimerFire
    \/ CancelRequest \/ YesCancel \/ SelectReason \/ ConfirmCancellation
    \/ NewRide

RebookSpec == DesktopInit /\ [][RebookNext]_vars

(***************************************************************************)
(* withRetry on its own                                                    *)
(***************************************************************************)

\* apiCall() settles with some outcome (rlog records what apiCall did); on
\* a retriable failure the backoff timer is set with its delay, the jitter
\* j being Math.random() * 1000, a value of [0, 1000).
RetryCallAttempt ==
    /\ rcall.pc = "attempt"
    /\ \E out \in RetryOutcomes, j \in {0, 500, 999} :
          /\ rcall' = RetryAttempt(rcall, out)
          /\ rlog' = Append(rlog, out)
          /\ rwaits' = IF rcall'.pc = "backoff"
                       THEN Append(rwaits, BackoffDelay(rcall.i, j))
                       ELSE rwaits
    /\ UNCHANGED <<app, bv, pend, obs>>

\* The backoff setTimeout fires.
RetryCallWake ==
    /\ rcall.pc = "backoff"
    /\ rcall' = RetryWake(rcall)
    /\ UNCHANGED <<app, bv, pend, obs, rlog, rwaits>>

RetryNext == RetryCallAttempt \/ RetryCallWake

RetrySpec == DesktopInit /\ [][RetryNext]_vars

(***************************************************************************)
(* Properties                                                              *)
(***************************************************************************)


Last(seq) == seq[Len(seq)]

\* The first n outcomes of the log are failures with a transient error.
TransientPrefix(log, n) ==
    \A k \in 1..n : ~log[k].ok /\ Val(log[k].err) \in TransientErrors

\* C1: once no debounce timer and no estimateFare call is pending, the
\* estimate displayed (if any) was computed from the current pickup,
\* destination, vehicle and passengerCount, never from earlier ones.
C1_NoStaleEstimate ==
    (pend.debounceTimers = {} /\ pend.fareCalls = <<>> /\ IsSome(bv.fareEstimate))
    => Val(bv.fareEstimate).for = FareInputs(app)

\* C2: while a ride stays CONFIRMED, every new value of DynamicEta is at most
\* the previous one and at least 0.
C2_EtaNeverIncreases ==
    [][(/\ bv.rideStatus = "CONFIRMED" /\ bv'.rideStatus = "CONFIRMED"
        /\ bv'.rideDetails = bv.rideDetails
        /\ IsSome(bv.dynamicEta) /\ IsSome(bv'.dynamicEta))
       => /\ Val(bv'.dynamicEta) <= Val(bv.dynamicEta)
          /\ Val(bv'.dynamicEta) >= 0]_vars

\* C3: the toast "Your driver is 2 minutes away!" is emitted at most once for
\* a ride, and only for a ride whose initial ETA is greater than 2.
C3_TwoMinuteToastOnce ==
    /\ obs.etaToasts <= 1
    /\ (obs.etaToasts >= 1 /\ bv.rideStatus = "CONFIRMED" /\ IsSome(bv.rideDetails))
       => /\ IsSome(ParseEta(Val(bv.rideDetails).eta))
          /\ Val(ParseEta(Val(bv.rideDetails).eta)) > 2

\* The CompletedRide records that rideHistory holds for the ride that
\* generateRideDetails call r produced.
CompletedCount(r) ==
    Cardinality({k \in DOMAIN app.rideHistory : app.rideHistory[k].details.ride = r})

\* C4: no ride has more than one CompletedRide in the history, and the ride
\* shown as PAID has exactly one.
C4_ExactlyOneCompletedRide ==
    /\ \A r \in 1..obs.rideSeq : CompletedCount(r) <= 1
    /\ (bv.rideStatus = "PAID" /\ IsSome(bv.rideDetails))
       => CompletedCount(Val(bv.rideDetails).ride) = 1

\* C5: every step that makes status PAID starts with status CONFIRMED.
C5_PaidOnlyFromConfirmed ==
    [][(bv'.rideStatus = "PAID" /\ bv.rideStatus # "PAID")
       => bv.rideStatus = "CONFIRMED"]_vars

\* The rides whose payment timer fires in this step.
FiredRides ==
    {Val(t.c.details).ride :
        t \in {u \in BagToSet(pend.payTimers) :
                  /\ CopiesIn(u, pend'.payTimers) < CopiesIn(u, pend.payTimers)
                  /\ IsSome(u.c.details)}}

\* C6: a payment timer of a ride that was cancelled and reset to IDLE has no
\* effect when it fires: it changes neither BookingView's state nor the
\* history, so no CompletedRide is emitted for the cancelled ride.
C6_NoZombiePaymentTimer ==
    [][(bv.rideStatus = "IDLE" /\ FiredRides \cap obs.cancelled # {})
       => (bv' = bv /\ app'.rideHistory = app.rideHistory)]_vars

\* C7: withRetry returns the first successful result: when the first k
\* attempts (k = 0, 1, 2) fail with a transient error and attempt k+1
\* succeeds, the call has returned that value after exactly k+1 attempts;
\* and after fewer than 3 transient failures the call has not given up.
C7_FirstSuccessReturned ==
    /\ (/\ rlog # <<>>
        /\ Len(rlog) <= 3
        /\ Last(rlog).ok
        /\ TransientPrefix(rlog, Len(rlog) - 1))
       => /\ rcall.pc = "returned"
          /\ rcall.value = Some(Last(rlog).val)
          /\ rcall.attempts = Len(rlog)
    /\ (Len(rlog) < 3 /\ TransientPrefix(rlog, Len(rlog)))
       => rcall.pc \in {"attempt", "backoff"}

C7_Witness ==
    /\ rcall.pc = "returned"
    /\ rcall.attempts = 3
    /\ Len(rlog) = 3
    /\ TransientPrefix(rlog, 2)
    /\ rcall.value = Some(rlog[3].val)

\* C8: an attempt that fails with an error that is not transient is the last
\* attempt: the call has thrown that same error, it made as many attempts as
\* apiCall was invoked, and the only backoff waits are those of the earlier
\* transient failures (none follows the failure); a non-transient failure of
\* the first attempt means exactly 1 attempt and no wait.
C8_NonTransientPropagates ==
    (/\ rlog # <<>>
     /\ ~Last(rlog).ok
     /\ Val(Last(rlog).err) \in FatalErrors)
    => /\ rcall.pc = "thrown"
       /\ rcall.thrown = Last(rlog).err
       /\ rcall.attempts = Len(rlog)
       /\ rcall.waits = Len(rlog) - 1

C8_Witness ==
    /\ rcall.pc = "thrown"
    /\ rcall.attempts = 1
    /\ rcall.waits = 0
    /\ Len(rlog) = 1
    /\ Val(rlog[1].err) \in FatalErrors

\* C9: withRetry never makes more than 3 attempts, and when all 3 attempts
\* fail with transient errors no further attempt is made and the error
\* thrown is that of the third attempt.
C9_AtMostThreeAttempts ==
    /\ rcall.attempts <= 3
    /\ Len(rlog) <= 3
    /\ (Len(rlog) = 3 /\ TransientPrefix(rlog, 3))
       => /\ rcall.pc \in {"backoff", "thrown"}
          /\ rcall.pc = "thrown" => rcall.thrown = rlog[3].err

C9_Witness ==
    /\ rcall.pc = "thrown"
    /\ rcall.attempts = 3
    /\ TransientPrefix(rlog, 3)
    /\ rlog[3].err # rlog[1].err
    /\ rcall.thrown = rlog[3].err

\* C10: fare-estimate triggers collapse: at most one debounce timer is
\* pending, set for 500ms and holding the current inputs; a trigger replaces
\* the pending timer by one for the new inputs and issues no call; and a call
\* is issued only by the one pending timer firing, one call, carrying the
\* inputs of the last trigger, with no timer left behind it.
C10_DebounceCollapses ==
    [][/\ Cardinality(pend'.debounceTimers) <= 1
       /\ \A t \in pend'.debounceTimers :
             t.args = FareInputs(app') /\ t.delay = 500
       /\ FareInputs(app') # FareInputs(app)
          => /\ pend'.debounceTimers = {[args |-> FareInputs(app'), delay |-> 500]}
             /\ pend'.fareCalls = pend.fareCalls
       /\ Len(pend'.fareCalls) > Len(pend.fareCalls)
          => /\ Len(pend'.fareCalls) = Len(pend.fareCalls) + 1
             /\ Last(pend'.fareCalls).req = FareInputs(app)
             /\ Cardinality(pend.debounceTimers) = 1
             /\ pend'.debounceTimers = {}]_vars

\* Pickup, destination and vehicle were all edited, and the one call in
\* flight carries the resulting inputs.
C10_Witness ==
    /\ pend.fareCalls = <<[req |-> FareInputs(app), rt |-> RetryStart, inst |-> bv.inst]>>
    /\ pend.debounceTimers = {}
    /\ app.vehicle # "CAR"
    /\ bv.isEstimating

\* C11: handleCancelRide at step reason with no reason selected only reminds
\* the user ("Please select a reason."): status, rideDetails, dynamicEta,
\* rideTrackingLink, cancellationStep (still reason) and cancellationReason
\* are unchanged.
C11_NoReasonRejected ==
    [][(bv.cancellationStep = "reason" /\ bv.cancellationReason = ""
        /\ CancelRideCall)
       => /\ app'.toastMessage = Some(TOAST_SELECT_REASON)
          /\ bv'.rideStatus = bv.rideStatus
          /\ bv'.rideDetails = bv.rideDetails
          /\ bv'.dynamicEta = bv.dynamicEta
          /\ bv'.rideTrackingLink = bv.rideTrackingLink
          /\ bv'.cancellationStep = "reason"
          /\ bv'.cancellationReason = ""]_vars

\* C12: handleCancelRide at step reason with one of the five listed reasons
\* selected emits the toast "Your ride has been cancelled." and resets the
\* ride bundle: status IDLE, no rideDetails, dynamicEta unset, no tracking
\* link, cancellationStep idle, cancellationReason empty, pickup and
\* destination empty, no fare estimate, no error.
C12_CancellationResets ==
    [][(bv.cancellationStep = "reason"
        /\ bv.cancellationReason \in CANCELLATION_REASONS
        /\ CancelRideCall)
       => /\ app'.toastMessage = Some(TOAST_CANCELLED)
          /\ bv'.rideStatus = "IDLE"
          /\ bv'.rideDetails = None
          /\ bv'.dynamicEta = None
          /\ bv'.rideTrackingLink = None
          /\ bv'.cancellationStep = "idle"
          /\ bv'.cancellationReason = ""
          /\ app'.pickup = "" /\ app'.destination = ""
          /\ bv'.fareEstimate = None
          /\ bv'.error = None]_vars

\* A ride was cancelled and the form is back, empty, with the toast shown.
C12_Witness ==
    /\ obs.cancelled # {}
    /\ app.toastMessage = Some(TOAST_CANCELLED)
    /\ bv.rideStatus = "IDLE" /\ bv.rideDetails = None
    /\ app.pickup = "" /\ app.destination = ""
    /\ bv.fareEstimate = None

\* The minutes in the eta texts of the form "<N> min".
MinutesOf(eta) == IF eta = ETA_3_MIN THEN 3 ELSE 2

\* The service answers attempt number rt.attempts + 1 of call k with a body
\* that parses and whose eta is "<N> min".
SearchSucceeds(k, eta) ==
    /\ pend.searchCalls[k].rt.pc = "attempt"
    /\ Commit(Render(W, searchSettle(W, k,
           RetryAttempt(pend.searchCalls[k].rt, Ok(JsonBody([eta |-> eta]))))))

\* A generateRideDetails call goes on after a transient failure or a backoff.
SearchGoesOn ==
    /\ Len(pend'.searchCalls) = Len(pend.searchCalls)
    /\ \E k \in DOMAIN pend.searchCalls :
          pend'.searchCalls[k].rt # pend.searchCalls[k].rt

\* C13: handleFindRide with both fields filled sets SEARCHING with no error;
\* a transient failure or a backoff of the call changes nothing the user
\* sees (status stays SEARCHING, no error); and the response with eta
\* "<N> min", on the first attempt or after up to two transient failures,
\* gives status CONFIRMED, rideDetails the response, dynamicEta N and a
\* tracking link.
C13_SearchConfirms ==
    [][/\ (FindRide /\ app.pickup # "" /\ app.destination # "")
          => /\ bv'.rideStatus = "SEARCHING" /\ bv'.error = None
             /\ Len(pend'.searchCalls) = Len(pend.searchCalls) + 1
       /\ SearchGoesOn => (bv' = bv /\ app' = app)
       /\ \A k \in DOMAIN pend.searchCalls : \A eta \in {ETA_3_MIN, ETA_2_MIN} :
             (pend.searchCalls[k].rt.attempts <= 2 /\ SearchSucceeds(k, eta))
             => /\ bv'.rideStatus = "CONFIRMED"
                /\ bv'.rideDetails = Some([eta |-> eta, ride |-> pend.searchCalls[k].ride])
                /\ bv'.dynamicEta = Some(MinutesOf(eta))
                /\ bv'.rideTrackingLink # None
                /\ bv'.error = None]_vars

\* The ride is confirmed with the response "3 min" and the ETA reads 3.
C13_Witness ==
    /\ bv.rideStatus = "CONFIRMED"
    /\ IsSome(bv.rideDetails) /\ Val(bv.rideDetails).eta = ETA_3_MIN
    /\ bv.dynamicEta = Some(3)
    /\ bv.rideTrackingLink # None
    /\ bv.error = None
    /\ pend.searchCalls = <<>>

\* Call k fails: an attempt is answered with a non-transient error or with a
\* body that does not parse, or the backoff after the third transient
\* failure ends.
SearchFails(k) ==
    LET rt == pend.searchCalls[k].rt
    IN \/ /\ rt.pc = "attempt"
          /\ \E out \in {Err(e) : e \in FatalErrors} \cup {Ok(Malformed)} :
                Commit(Render(W, searchSettle(W, k, RetryAttempt(rt, out))))
       \/ /\ rt.pc = "backoff" /\ rt.attempts = MAX_RETRIES
          /\ Commit(Render(W, searchSettle(W, k, RetryWake(rt))))

\* C14: when the ride search fails, for whichever cause, status becomes
\* ERROR with the message "Could not find a ride. Please try again later.",
\* and neither rideDetails nor the tracking link is set.
C14_SearchFailure ==
    [][\A k \in DOMAIN pend.searchCalls :
          SearchFails(k)
          => /\ bv'.rideStatus = "ERROR"
             /\ bv'.error = Some("Could not find a ride. Please try again later.")
             /\ bv'.rideDetails = None
             /\ bv'.rideTrackingLink = None]_vars

\* A search has failed and the ERROR view shows the message.
C14_Witness ==
    /\ bv.rideStatus = "ERROR"
    /\ bv.error = Some("Could not find a ride. Please try again later.")
    /\ bv.rideDetails = None /\ bv.rideTrackingLink = None
    /\ pend.searchCalls = <<>> /\ obs.rideSeq >= 1

\* C15: status becomes CONFIRMED only from SEARCHING, in the step in which a
\* generateRideDetails call settles.
C15_ConfirmedOnlyFromSearching ==
    [][(bv'.rideStatus = "CONFIRMED" /\ bv.rideStatus # "CONFIRMED")
       => /\ bv.rideStatus = "SEARCHING"
          /\ Len(pend'.searchCalls) < Len(pend.searchCalls)]_vars

\* capacity(vehicle): BIKE 1, AUTO 4, CAR 4.
Capacity(v) == CASE v = "BIKE" -> 1 [] v = "AUTO" -> 4 [] v = "CAR" -> 4

\* C16: 1 <= passengerCount <= capacity(vehicle) in every state of the form;
\* setVehicle(v) followed by the clamp effect gives vehicle v, whichever v is,
\* and every vehicle change leaves passengerCount at the minimum of the
\* previous count and the new capacity.
C16_PassengersWithinCapacity ==
    /\ [](/\ 1 <= app.passengerCount
          /\ app.passengerCount <= Capacity(app.vehicle)
          /\ \A v \in {"BIKE", "AUTO", "CAR"} :
                LET w == Render(W, [W EXCEPT !.app.vehicle = v])
                IN /\ w.app.vehicle = v
                   /\ w.app.passengerCount = Min(app.passengerCount, Capacity(v)))
    /\ [][app'.vehicle # app.vehicle
          => app'.passengerCount = Min(app.passengerCount, Capacity(app'.vehicle))]_vars

\* The estimate on display was computed for 3 passengers, and the vehicle is
\* now a bike with 1 passenger: the count was clamped by the vehicle change.
C16_Witness ==
    /\ IsSome(bv.fareEstimate) /\ Val(bv.fareEstimate).for.pc = 3
    /\ app.vehicle = "BIKE" /\ app.passengerCount = 1

\* C17: handleFindRide with an empty pickup or an empty destination sets the
\* validation message, leaves status IDLE and issues no generateRideDetails
\* call.
C17_EmptyFieldRejected ==
    [][((app.pickup = "" \/ app.destination = "") /\ FindRideCall)
       => /\ bv'.error = Some("Please enter both pickup and destination.")
          /\ bv.rideStatus = "IDLE" /\ bv'.rideStatus = "IDLE"
          /\ pend'.searchCalls = pend.searchCalls
          /\ obs'.rideSeq = obs.rideSeq]_vars

\* The validation message is set with the pickup filled and the destination
\* empty; no search was started.
C17_Witness ==
    /\ bv.error = Some("Please enter both pickup and destination.")
    /\ bv.rideStatus = "IDLE"
    /\ app.pickup # "" /\ app.destination = ""
    /\ pend.searchCalls = <<>> /\ obs.rideSeq = 0

\* C18: status leaves ERROR only by the new-ride reset, to IDLE with the
\* error, rideDetails, pickup and destination cleared; and no
\* generateRideDetails call is issued while status is ERROR.
C18_ErrorLeftOnlyByNewRide ==
    [][bv.rideStatus = "ERROR"
       => /\ bv'.rideStatus # "ERROR"
             => /\ bv'.rideStatus = "IDLE"
                /\ bv'.error = None
                /\ bv'.rideDetails = None
                /\ app'.pickup = "" /\ app'.destination = ""
          /\ Len(pend'.searchCalls) <= Len(pend.searchCalls)]_vars

\* The tracking effect's body ran: CONFIRMED with a ride.
Tracking == bv.rideStatus = "CONFIRMED" /\ IsSome(bv.rideDetails)

\* C19: moveInterval and etaInterval are both running exactly while status
\* is CONFIRMED with rideDetails; a tick of either occurs only then; and in
\* any other status driverPosition never changes and dynamicEta is never
\* counted down.
C19_TicksOnlyWhileConfirmed ==
    /\ [](pend.moveInterval = Tracking /\ pend.etaInterval = Tracking)
    /\ [][/\ (EtaTick \/ MoveTick) => Tracking
          /\ ~Tracking
             => /\ bv'.driverPosition = bv.driverPosition
                /\ obs'.moves = obs.moves
                /\ IsSome(bv'.dynamicEta) /\ ~Tracking'
                   => bv'.dynamicEta = bv.dynamicEta]_vars

\* The position drifted and the ETA was counted down while CONFIRMED; the
\* ride is now PAID and neither interval is running.
C19_Witness ==
    /\ bv.rideStatus = "PAID"
    /\ obs.moves >= 1 /\ bv.driverPosition # [top |-> 40, left |-> 60]
    /\ obs.etaToasts >= 1
    /\ ~pend.moveInterval /\ ~pend.etaInterval

\* C20: rideStatus is always one of IDLE, SEARCHING, CONFIRMED, PAID, ERROR;
\* it is never COMPLETED.
C20_StatusNeverCompleted ==
    /\ bv.rideStatus \in {"IDLE", "SEARCHING", "CONFIRMED", "PAID", "ERROR"}
    /\ bv.rideStatus \in RideStatus \ {"COMPLETED"}

\* A ride was paid and handed to the history: its status is PAID.
C20_Witness ==
    /\ bv.rideStatus = "PAID"
    /\ IsSome(bv.rideDetails)
    /\ CompletedCount(Val(bv.rideDetails).ride) >= 1

\* The payment completions that are pending: the CASH/CARD/Google Pay timers
\* that run, and the Google Pay modal waiting for the user.
PaymentsInFlight ==
    BagCardinality(pend.payTimers) + (IF GPayModalMounted(W) /\ ~bv.isProcessing THEN 1 ELSE 0)

\* C21: at most one payment attempt is in flight at any time: while a payment
\* completion is pending, selecting another payment method does not start a
\* second attempt.
C21_OnePaymentInFlight ==
    PaymentsInFlight <= 1

\* C22: the cancellation overlay exists only on top of CONFIRMED:
\* cancellationStep is confirm or reason only if the status is CONFIRMED.
C22_OverlayOnlyOnConfirmed ==
    bv.cancellationStep \in {"confirm", "reason"} => bv.rideStatus = "CONFIRMED"

\* C23: withRetry waits only before a retry: a call that made n attempts has
\* performed exactly n-1 backoff waits when it ends, the wait before retry i
\* (counted from 0) being 2^i seconds plus a jitter below one second; after
\* the final failed attempt the error is thrown without a further wait.
C23_WaitsOnlyBeforeRetry ==
    /\ \A k \in DOMAIN rwaits :
          /\ rwaits[k] >= Pow2(k - 1) * 1000
          /\ rwaits[k] < Pow2(k - 1) * 1000 + 1000
    /\ rcall.pc \in {"returned", "thrown"} => Len(rwaits) = Len(rlog) - 1
    /\ Len(rlog) = MAX_RETRIES => rcall.pc # "backoff"

\* C24: if the ride's ETA text has no leading integer, dynamicEta stays unset
\* for the whole time the ride is CONFIRMED, also after ETA ticks.
C24_UnparsedEtaStaysUnset ==
    (/\ bv.rideStatus = "CONFIRMED"
     /\ IsSome(bv.rideDetails)
     /\ ParseEta(Val(bv.rideDetails).eta) = None)
    => bv.dynamicEta = None

\* C25: in every state whose status is PAID the ride's offer (rideDetails)
\* and its tracking link are unset, as they are after a reset to IDLE.
C25_PaidDestroysOffer ==
    bv.rideStatus = "PAID" => bv.rideDetails = None /\ bv.rideTrackingLink = None

(***************************************************************************)
(* Wallet payments: the user holds wallet-style payment methods besides    *)
(* CASH and the card                                                       *)
(***************************************************************************)

\* BookingView first shown with payment methods of the wallet types of
\* PaymentMethod, as App is handed them by the payment-methods screen.
WalletInit ==
    /\ \E isMobileDevice \in BOOLEAN, storedHistory \in StoredHistories :
          app = [MountApp(isMobileDevice, storedHistory)
                    EXCEPT !.paymentMethods =
                               @ \cup {[id |-> "2", type |-> "GOOGLE_PAY"],
                                       [id |-> "3", type |-> "PHONE_PE"]}]
    /\ bv = InitBV
    /\ pend = InitPend
    /\ obs = InitObs
    /\ rcall = RetryStart
    /\ rlog = <<>>
    /\ rwaits = <<>>

WalletNext ==
    \/ EnterPickup
    \/ EnterDestination
    \/ DebounceFire
    \/ FindFirstRide
    \/ SearchAttempt
    \/ SearchWake
    \/ EtaTick
    \/ ToastClose
    \/ Pay
    \/ GPayPay
    \/ GPayCancel
    \/ PayTimerFire
    \/ NewRide
    \/ VoiceOpen
    \/ VoiceClose

WalletSpec == WalletInit /\ [][WalletNext]_vars

\* C26: when a payment completes, in one step payingMethodId is cleared,
\* dynamicEta is cleared, the Google Pay modal is closed and the status
\* becomes PAID.
C26_CompletionStep ==
    [][PayTimerFire
       => /\ bv'.payingMethodId = None
          /\ bv'.dynamicEta = None
          /\ ~bv'.isGPayModalOpen
          /\ ~GPayModalMounted(W)'
          /\ bv'.rideStatus = "PAID"]_vars

\* A Google Pay payment has completed a ride whose ETA was being counted
\* down: the modal is closed and nothing is left of the payment.
C26_Witness ==
    /\ bv.rideStatus = "PAID"
    /\ app.toastMessage = Some(TOAST_PAYMENT_OK)
    /\ Len(app.rideHistory) = 1
    /\ IsSome(bv.rideDetails) /\ IsSome(ParseEta(Val(bv.rideDetails).eta))
    /\ bv.payingMethodId = None /\ bv.dynamicEta = None /\ ~bv.isGPayModalOpen
    /\ pend.payTimers = EmptyBag

\* C27: for a wallet-style payment method (type neither CASH nor CARD),
\* selecting the method opens the confirmation modal and starts nothing that
\* completes the payment by itself: no timer that calls completeRideAction.
C27_WalletNeedsConfirm ==
    CardRendered
    => \A method \in app.paymentMethods :
          method.type \notin {"CASH", "CARD"}
          => LET w == Render(W, handlePayment(W, method))
             IN /\ GPayModalMounted(w)
                /\ w.pend.payTimers = pend.payTimers
                /\ w.bv.rideStatus = "CONFIRMED"

\* C28: cancelling the Google Pay modal closes it and clears payingMethodId,
\* and leaves the status (CONFIRMED), rideDetails, dynamicEta, the tracking
\* link and the ride history unchanged: no completed ride is handed over and
\* no payment timer is started.
C28_GPayCancelFrame ==
    [][GPayCancel
       => /\ ~bv'.isGPayModalOpen
          /\ bv'.payingMethodId = None
          /\ bv.rideStatus = "CONFIRMED" /\ bv'.rideStatus = "CONFIRMED"
          /\ bv'.rideDetails = bv.rideDetails
          /\ bv'.dynamicEta = bv.dynamicEta
          /\ bv'.rideTrackingLink = bv.rideTrackingLink
          /\ app'.rideHistory = app.rideHistory
          /\ pend'.payTimers = pend.payTimers]_vars

\* The Google Pay modal is open on a ride whose ETA has been counted down to
\* 2, waiting for the user, and its Cancel button closes it and stops the
\* spinner.
C28_Witness ==
    /\ GPayModalMounted(W) /\ ~bv.isProcessing
    /\ bv.payingMethodId = Some("2")
    /\ bv.dynamicEta = Some(2)
    /\ IsSome(bv.rideTrackingLink)
    /\ LET w == Render(W, handleGPayCancel(W))
       IN /\ ~w.bv.isGPayModalOpen /\ w.bv.payingMethodId = None
          /\ w.bv.dynamicEta = Some(2) /\ w.bv.rideStatus = "CONFIRMED"

\* C29: while an estimateFare call is in flight the displayed estimate is
\* cleared and the "estimating" indicator is on; the indicator goes off only
\* when no fare call remains in flight, also when a second call was started
\* before the first one returned.
C29_EstimatingWhileInFlight ==
    pend.fareCalls # <<>> => bv.isEstimating /\ bv.fareEstimate = None

(***************************************************************************)
(* The service's responses: fare estimates, ride details and the           *)
(* suggestion prefetch on one form                                         *)
(***************************************************************************)

SuggestNext ==
    \/ EditPickup
    \/ EditDestination
    \/ DebounceFire
    \/ FareAttempt
    \/ FareWake
    \/ FindRide
    \/ SearchAttempt
    \/ SearchWake
    \/ SuggestAttempt
    \/ SuggestWake
    \/ SuggestionClick
    \/ NewRide

SuggestSpec == DesktopInit /\ [][SuggestNext]_vars

\* C30: a malformed ride-generation response always ends in status ERROR,
\* never CONFIRMED; a malformed fare-estimate response leaves no estimate
\* shown and a malformed suggestions response leaves an empty suggestion
\* list, both with the status unchanged (while the booking view is shown).
C30_MalformedResponses ==
    Mounted =>
    /\ \A k \in DOMAIN pend.searchCalls :
          pend.searchCalls[k].rt.pc = "attempt"
          => LET w == Render(W, searchSettle(W, k,
                          RetryAttempt(pend.searchCalls[k].rt, Ok(Malformed))))
             IN w.bv.rideStatus = "ERROR"
    /\ \A k \in DOMAIN pend.fareCalls :
          pend.fareCalls[k].rt.pc = "attempt"
          => LET w == Render(W, fareSettle(W, k,
                          RetryAttempt(pend.fareCalls[k].rt, Ok(Malformed))))
             IN w.bv.fareEstimate = None /\ w.bv.rideStatus = bv.rideStatus
    /\ \A k \in DOMAIN pend.suggestionCalls :
          pend.suggestionCalls[k].rt.pc = "attempt"
          => LET w == Render(W, suggestSettle(W, k,
                          RetryAttempt(pend.suggestionCalls[k].rt, Ok(Malformed))))
             IN w.bv.suggestions = <<>> /\ w.bv.rideStatus = bv.rideStatus

(***************************************************************************)
(* Searches that run to their end: every service attempt is answered and   *)
(* every backoff timer fires                                               *)
(***************************************************************************)

SearchLiveNext ==
    \/ EnterPickup \/ EnterDestination \/ DebounceFire
    \/ FindRide \/ SearchAttempt \/ SearchWake
    \/ RotatorTick
    \/ NewRide

SearchLiveSpec ==
    /\ DesktopInit /\ [][SearchLiveNext]_vars
    /\ WF_vars(SearchAttempt) /\ WF_vars(SearchWake)

\* C31: every search terminates: once the status is SEARCHING it eventually
\* becomes CONFIRMED or ERROR (each service attempt being answered and each
\* backoff wait ending), and a search makes at most 3 service attempts.
C31_SearchTerminates ==
    /\ [](\A k \in DOMAIN pend.searchCalls :
             /\ pend.searchCalls[k].rt.attempts <= 3
             /\ pend.searchCalls[k].rt.pc = "attempt"
                => pend.searchCalls[k].rt.attempts < 3)
    /\ (bv.rideStatus = "SEARCHING") ~> (bv.rideStatus \in {"CONFIRMED", "ERROR"})

\* A search is at its third attempt, after two transient failures and their
\* backoff waits.
C31_Witness ==
    /\ bv.rideStatus = "SEARCHING"
    /\ \E k \in DOMAIN pend.searchCalls :
          /\ pend.searchCalls[k].rt.pc = "attempt"
          /\ pend.searchCalls[k].rt.attempts = 2
          /\ pend.searchCalls[k].rt.waits = 2

(***************************************************************************)
(* Leaving the booking view and coming back to it                          *)
(***************************************************************************)

\* The user books a ride, follows a suggestion or goes to another view, and
\* comes back: a new BookingView is mounted while the calls of the one before
\* may still be in flight.
NavNext ==
    \/ EnterPickup \/ EnterDestination \/ DebounceFire
    \/ FindRide \/ SearchAttempt \/ SearchWake
    \/ SuggestAttempt \/ SuggestWake
    \/ SuggestionClick \/ NavItemClick \/ ProfileClick
    \/ NewRide

NavSpec == DesktopInit /\ [][NavNext]_vars

\* The states the next step of a withRetry activation in state rt can lead
\* to, the service answering with one of outcomes.
RetrySteps(rt, outcomes) ==
    IF rt.pc = "attempt" THEN {RetryAttempt(rt, out) : out \in outcomes}
    ELSE IF rt.pc = "backoff" THEN {RetryWake(rt)} ELSE {}

\* The call has failed: withRetry threw, or it returned a body that is not
\* JSON.
Failed(rt) ==
    rt.pc = "thrown" \/ (rt.pc = "returned" /\ JsonParse(Val(rt.value)) = None)

\* C32: the suggestion prefetch issues a service call only when the status is
\* IDLE; when a prefetch fails the suggestion list is empty afterwards, no
\* error message is set and the status is unchanged (the prefetches being
\* those of the BookingView that is shown).
C32_PrefetchFailure ==
    /\ [](Mounted => \A k \in DOMAIN pend.suggestionCalls :
             \A rt \in RetrySteps(pend.suggestionCalls[k].rt, SuggestOutcomes) :
                (pend.suggestionCalls[k].inst = bv.inst /\ Failed(rt))
                => LET w == Render(W, suggestSettle(W, k, rt))
                   IN /\ w.bv.suggestions = <<>>
                      /\ w.bv.error = bv.error
                      /\ w.bv.rideStatus = bv.rideStatus)
    /\ [][Len(pend'.suggestionCalls) > Len(pend.suggestionCalls)
          => bv'.rideStatus = "IDLE"]_vars

(***************************************************************************)
(* The auxiliary features beside the ride: fare estimate, suggestion       *)
(* prefetch and sharing                                                    *)
(***************************************************************************)

SoftFailNext ==
    \/ TypePickup({"MG Road"})
    \/ EditDestination
    \/ DebounceFire
    \/ FareAttempt
    \/ FareWake
    \/ SuggestAttempt
    \/ SuggestWake
    \/ FindFirstRide
    \/ SearchAttempt
    \/ SearchWake
    \/ ShareRequest
    \/ ShareSettle
    \/ ShareModalClose
    \/ ShareModalCopy
    \/ CancelRequest
    \/ YesCancel
    \/ SelectReason
    \/ ConfirmCancellation
    \/ NewRide

SoftFailSpec == DesktopInit /\ [][SoftFailNext]_vars

\* State w, left by a failure, has the status, the error message and the form
\* of the current state, and Find Ride still starts a search from it.
Unharmed(w) ==
    /\ w.bv.rideStatus = bv.rideStatus
    /\ w.bv.error = bv.error
    /\ w.app.pickup = app.pickup /\ w.app.destination = app.destination
    /\ (w.bv.rideStatus = "IDLE" /\ w.app.pickup # "" /\ w.app.destination # "")
       => LET f == Render(w, handleFindRide(w))
          IN f.bv.rideStatus = "SEARCHING" /\ f.bv.error = None

\* C33: failures of fare estimation, suggestion prefetch and sharing (a
\* rejected navigator.share, a Copy button without a clipboard) are only
\* logged: none of them changes the status, sets the error message, or keeps
\* a following handleFindRide from moving IDLE to SEARCHING.
C33_SoftFailures ==
    /\ \A k \in DOMAIN pend.fareCalls :
          \A rt \in RetrySteps(pend.fareCalls[k].rt, FareOutcomes(pend.fareCalls[k].req)) :
             Failed(rt) => Unharmed(Render(W, fareSettle(W, k, rt)))
    /\ \A k \in DOMAIN pend.suggestionCalls :
          \A rt \in RetrySteps(pend.suggestionCalls[k].rt, SuggestOutcomes) :
             Failed(rt) => Unharmed(Render(W, suggestSettle(W, k, rt)))
    /\ pend.shareCalls > 0 => Unharmed(Render(W, shareSettle(W, FALSE)))
    /\ (Mounted /\ bv.isShareModalOpen) => Unharmed(Render(W, handleCopy(W, FALSE)))

\* A ride was booked, shared and cancelled, in a browser with neither
\* navigator.share nor a clipboard: the share modal opened and its Copy
\* button threw. The form is filled again, its fare estimate failed (both texts
\* are long, the debounce fired, no call is left and no estimate is shown),
\* every suggestion prefetch failed, and Find Ride starts a search.
C33_Witness ==
    /\ obs.shareErrors = {"copy"}
    /\ obs.rideSeq = 1 /\ obs.cancelled # {}
    /\ bv.rideStatus = "IDLE"
    /\ Len(app.pickup) > 2 /\ Len(app.destination) > 2
    /\ pend.debounceTimers = {} /\ pend.fareCalls = <<>>
    /\ bv.fareEstimate = None /\ bv.error = None
    /\ pend.suggestionCalls = <<>> /\ bv.suggestions = <<>>
    /\ pend.shareCalls = 0
    /\ Render(W, handleFindRide(W)).bv.rideStatus = "SEARCHING"

\* C34: when the debounce timer fires with a pickup or destination of 2
\* characters or fewer, no estimateFare call is issued and the estimate is
\* cleared; a call is issued only when both texts are longer than 2
\* characters, and only by the timer firing.
C34_ShortTextNoCall ==
    [][/\ (pend.debounceTimers # {} /\ pend'.debounceTimers = {})
          => \A t \in pend.debounceTimers :
                IF Len(t.args.p) > 2 /\ Len(t.args.d) > 2
                THEN pend'.fareCalls = Append(pend.fareCalls, [req |-> t.args, rt |-> RetryStart,
                                                                  inst |-> bv.inst])
                ELSE /\ pend'.fareCalls = pend.fareCalls
                     /\ bv'.fareEstimate = None
                     /\ bv'.isEstimating = bv.isEstimating
       /\ Len(pend'.fareCalls) > Len(pend.fareCalls)
          => /\ pend.debounceTimers # {} /\ pend'.debounceTimers = {}
             /\ Len(Last(pend'.fareCalls).req.p) > 2
             /\ Len(Last(pend'.fareCalls).req.d) > 2]_vars

\* An estimate is shown, the pickup has been cut to 2 characters and the
\* debounce timer is about to fire: it clears the estimate and calls nothing.
C34_Witness ==
    /\ IsSome(bv.fareEstimate)
    /\ Len(app.pickup) = 2 /\ Len(app.destination) > 2
    /\ pend.fareCalls = <<>>
    /\ \E t \in pend.debounceTimers :
          /\ t.args.p = app.pickup
          /\ LET w == Render(W, debounceFire(W, t))
             IN w.bv.fareEstimate = None /\ w.pend.fareCalls = <<>>

\* C35: driverPosition is reset on a new ride: after handleNewRide (also
\* when reached through a cancellation) it has its initial value, so whenever
\* no ride is held the position is the one every ride starts from.
C35_PositionResetOnNewRide ==
    bv.rideStatus \in {"IDLE", "SEARCHING"} => bv.driverPosition = InitBV.driverPosition

(***************************************************************************)
(* A long ride: the driver's position drifts to the edges of the map       *)
(***************************************************************************)

\* The 2s interval of the tracking effect fires, over a ride long enough for
\* the position to reach the edges.
DriftTick ==
    /\ pend.moveInterval
    /\ obs.moves < MaxDrift
    /\ \E dTop \in Drifts, dLeft \in Drifts :
          Commit(Render(W, moveTick(W, dTop, dLeft)))

DriftNext ==
    \/ EnterPickup \/ EnterDestination \/ DebounceFire
    \/ FindFirstRide \/ SearchAttempt \/ SearchWake
    \/ DriftTick

DriftSpec == DesktopInit /\ [][DriftNext]_vars

Abs(n) == IF n < 0 THEN 0 - n ELSE n

\* C36: driverPosition always stays inside the viewport bounds, 10 <= top <=
\* 80 and 10 <= left <= 90, from the initial position on, and a drift tick
\* moves each coordinate by at most 2.
C36_PositionInBounds ==
    /\ [](/\ 10 <= bv.driverPosition.top /\ bv.driverPosition.top <= 80
          /\ 10 <= bv.driverPosition.left /\ bv.driverPosition.left <= 90)
    /\ [][/\ Abs(bv'.driverPosition.top - bv.driverPosition.top) <= 2
          /\ Abs(bv'.driverPosition.left - bv.driverPosition.left) <= 2]_vars

\* The position has drifted down to the lower edge and left to the left
\* edge, where the last tick was clamped.
C36_Witness ==
    /\ obs.moves = MaxDrift
    /\ bv.driverPosition = [top |-> 80, left |-> 10]

(***************************************************************************)
(* Searching, with the loading message rotating                            *)
(***************************************************************************)

RotatorNext ==
    \/ EnterPickup \/ EnterDestination \/ DebounceFire
    \/ FindRide \/ SearchAttempt \/ SearchWake
    \/ RotatorTick
    \/ EtaTick \/ ToastClose
    \/ NewRide

RotatorSpec == DesktopInit /\ [][RotatorNext]_vars

\* C37: the loading-message rotator stops and resets the instant the status
\* leaves SEARCHING: whenever the status is not SEARCHING no rotator interval
\* is running and the loading message is the initial "Finding your ride...",
\* and every entry into SEARCHING starts from that initial message.
C37_RotatorResets ==
    /\ [](bv.rideStatus # "SEARCHING"
          => pend.rotator = None /\ bv.loadingMessage = LOADING_INITIAL)
    /\ [][(bv.rideStatus # "SEARCHING" /\ bv'.rideStatus = "SEARCHING")
          => bv'.loadingMessage = LOADING_INITIAL /\ pend'.rotator = Some(0)]_vars

\* C38: whenever the status is IDLE no payment is in progress: payingMethodId
\* is unset, the Google Pay modal is closed and no payment timer is pending,
\* also when IDLE was reached by cancelling a ride while a payment was
\* pending.
C38_IdleHasNoPayment ==
    bv.rideStatus = "IDLE"
    => /\ bv.payingMethodId = None
       /\ ~bv.isGPayModalOpen
       /\ pend.payTimers = EmptyBag

(***************************************************************************)
(* A ride that stays CONFIRMED while its ETA interval keeps firing         *)
(***************************************************************************)

EtaLiveNext ==
    \/ EnterPickup \/ EnterDestination \/ DebounceFire
    \/ FindRide \/ SearchAttempt \/ SearchWake
    \/ EtaTick \/ ToastClose
    \/ VoiceOpen \/ VoiceClose
    \/ Pay \/ PayTimerFire
    \/ NewRide

EtaLiveSpec ==
    /\ MobileInit /\ [][EtaLiveNext]_vars
    /\ WF_vars(EtaTick) /\ WF_vars(ToastClose)

\* The ride held is CONFIRMED and its ETA text starts with an integer.
ParsedRide ==
    /\ bv.rideStatus = "CONFIRMED"
    /\ IsSome(bv.rideDetails)
    /\ IsSome(ParseEta(Val(bv.rideDetails).eta))

\* C39: the ETA countdown makes progress: for a ride with a parsed initial
\* ETA that stays CONFIRMED while the 60s tick keeps firing, dynamicEta
\* eventually reaches 0, and once 0 it stays 0, whatever toasts and parent
\* re-renders happen in between.
C39_CountdownReachesZero ==
    /\ [][(ParsedRide /\ bv.dynamicEta = Some(0) /\ ParsedRide')
          => bv'.dynamicEta = Some(0)]_vars
    /\ ParsedRide ~> (bv.dynamicEta = Some(0) \/ ~ParsedRide)

====
